---- MODULE Spec2Model ----
(***************************************************************************)
(* Model of the pressure-pad firmware in src/arduino.cpp.                  *)
(*                                                                         *)
(* Two tasks share the globals of the sketch: the Arduino loop task, which *)
(* runs loop(), recordData(), sendData() and resetRecording(), and the BLE *)
(* task, which runs the server and characteristic callbacks.  The loop     *)
(* task is modelled statement by statement from the swing trigger onwards  *)
(* (positions are named after source lines); the BLE task is modelled      *)
(* statement by statement inside onWrite and onDisconnect.                 *)
(***************************************************************************)
EXTENDS Integers, Sequences, FiniteSets, TLC

(***************************************************************************)
(* Bounds of the model.                                                    *)
(***************************************************************************)
\* Last millis() value at which loop() still takes a new sample pair.
MaxTime == 10000
\* Number of characteristic writes delivered in one run.
MaxWrites == 1
\* Number of disconnect events delivered in one run.
MaxDisconnects == 1
\* While the record loop of lines 164-167 runs, the BLE task is scheduled
\* only during this many of its first iterations.
MaxBleIterations == 1
\* Longest series handed to sendData() when it is checked on its own.
MaxSamples == 2
\* Time, in ms, between two sample pairs of the HX711 converters as seen
\* by loop(): the delay(10) of line 199 plus iterations without new data.
Steps == {500, 4000}
\* Calibrated readings the two converters deliver.
Weights == {1000, 1200}
\* Values written to the characteristic by the remote side, as character
\* sequences.
Commands ==
  { <<"6", "/", "3">>, <<"5", "/", "x">>, <<"a", "b", "c">> }

(***************************************************************************)
(* Program constants.                                                      *)
(***************************************************************************)
WEIGHT_THRESHOLD == 1000
\* millis() when setup() returns: two stabilisation periods of 2000 ms.
BootTime == 4000

(***************************************************************************)
(* Single-precision arithmetic.  A float is 0 or m * 2^e with              *)
(* 2^23 <= m < 2^24; every operation rounds to nearest, ties to even.      *)
(***************************************************************************)
F32Zero == [m |-> 0, e |-> 0]

RECURSIVE BitLen(_)
BitLen(n) == IF n = 0 THEN 0 ELSE 1 + BitLen(n \div 2)

\* The float nearest to mv * 2^ev, for 0 <= mv < 2^31.
F32Nearest(mv, ev) ==
  IF mv = 0 THEN F32Zero
  ELSE LET s == BitLen(mv) - 24 IN
    IF s <= 0 THEN [m |-> mv * 2^(0 - s), e |-> ev + s]
    ELSE LET q    == mv \div 2^s
             r    == mv % 2^s
             half == 2^(s - 1)
             up   == r > half \/ (r = half /\ q % 2 = 1)
             q1   == IF up THEN q + 1 ELSE q
         IN IF q1 = 2^24 THEN [m |-> 2^23, e |-> ev + s + 1]
                         ELSE [m |-> q1, e |-> ev + s]

\* F32Nearest of two expressions, each evaluated once.
F32Round(m, e) ==
  CHOOSE f \in {F32Nearest(mv, ev) : mv \in {m}, ev \in {e}} : TRUE

RECURSIVE OddPart(_)
OddPart(n) == IF n = 0 \/ n % 2 = 1 THEN n ELSE OddPart(n \div 2)

RECURSIVE TwoPart(_)
TwoPart(n) == IF n = 0 \/ n % 2 = 1 THEN 0 ELSE 1 + TwoPart(n \div 2)

\* float * int, the int converted to float first (exact below 2^24); the
\* odd part of n is at most 127, so that the product stays below 2^31.
F32MulInt(f, n) == F32Round(f.m * OddPart(n), f.e + TwoPart(n))

\* av + bv for two non-negative floats
F32Sum(av, bv) ==
  IF av.m = 0 THEN bv
  ELSE IF bv.m = 0 THEN av
  ELSE LET hi == IF av.e >= bv.e THEN av ELSE bv
           lo == IF av.e >= bv.e THEN bv ELSE av
           d  == hi.e - lo.e
           \* three extra bits; the last one is sticky
           lo8 == IF d >= 27 THEN 1
                  ELSE (lo.m * 8) \div 2^d
                       + (IF (lo.m * 8) % 2^d # 0 /\ ((lo.m * 8) \div 2^d) % 2 = 0
                          THEN 1 ELSE 0)
       IN F32Round(hi.m * 8 + lo8, hi.e - 3)

\* float + float, both non-negative: F32Sum of two expressions, each
\* evaluated once.
F32Add(a, b) == CHOOSE f \in {F32Sum(av, bv) : av \in {a}, bv \in {b}} : TRUE

\* unsigned long -> float
F32FromNat(n) == F32Round(n, 0)

\* float -> unsigned long: the fraction is discarded.
F32Trunc(f) ==
  IF f.m = 0 THEN 0
  ELSE IF f.e >= 0 THEN f.m * 2^f.e
  ELSE IF 0 - f.e >= 24 THEN 0
  ELSE f.m \div 2^(0 - f.e)

\* const float frameTime = 0.033
frameTime == [m |-> 8858370, e |-> 0 - 28]
\* const float SAMPLE_INTERVAL = 0.0125
SAMPLE_INTERVAL == [m |-> 13421773, e |-> 0 - 30]

\* backFrames * frameTime * 1000, evaluated left to right in float
FrameDelay(frames) == F32MulInt(F32MulInt(frameTime, frames), 1000)

(***************************************************************************)
(* C string functions used by onWrite.                                     *)
(***************************************************************************)
Digits == <<"0", "1", "2", "3", "4", "5", "6", "7", "8", "9">>

IsDigit(c) == \E i \in 1..10 : Digits[i] = c

DigitVal(c) == (CHOOSE i \in 1..10 : Digits[i] = c) - 1

\* strchr(s, '/'): index of the first '/', 0 if there is none
RECURSIVE strchr(_, _)
strchr(s, i) ==
  IF i > Len(s) THEN 0
  ELSE IF s[i] = "/" THEN i
  ELSE strchr(s, i + 1)

\* atoi on the characters from position i: the digits up to the first
\* character that is not one; 0 when there is no leading digit
RECURSIVE atoiFrom(_, _, _)
atoiFrom(s, i, acc) ==
  IF i > Len(s) \/ ~IsDigit(s[i]) THEN acc
  ELSE atoiFrom(s, i + 1, 10 * acc + DigitVal(s[i]))

atoi(s) ==
  IF Len(s) > 0 /\ s[1] = "-" THEN 0 - atoiFrom(s, 2, 0)
  ELSE IF Len(s) > 0 /\ s[1] = "+" THEN atoiFrom(s, 2, 0)
  ELSE atoiFrom(s, 1, 0)

\* String(int): the decimal rendering
RECURSIVE DecDigits(_)
DecDigits(n) ==
  IF n < 10 THEN <<Digits[n + 1]>>
  ELSE Append(DecDigits(n \div 10), Digits[(n % 10) + 1])

StringOfInt(n) == IF n < 0 THEN <<"-">> \o DecDigits(0 - n) ELSE DecDigits(n)

(***************************************************************************)
(* String functions used by sendData.                                      *)
(***************************************************************************)
\* the last `places` decimal digits of n, with leading zeros
RECURSIVE FractionDigits(_, _)
FractionDigits(n, places) ==
  IF places = 0 THEN <<>>
  ELSE Append(FractionDigits(n \div 10, places - 1), Digits[(n % 10) + 1])

\* String(value, decimalPlaces) for the non-negative value n / 10^places:
\* the integer part, a point and `places` digits
StringOfFloat(n, places) ==
  DecDigits(n \div 10^places) \o <<".">> \o FractionDigits(n % 10^places, places)

\* String::remove(index) removing nothing
removeNothing(str, index) == str

\* String::remove(index): the characters from index (counted from 0) to the
\* end are dropped.  An index past the end removes nothing; length() - 1
\* of an empty string is such an index.
remove(str, index) ==
  IF index < 0 \/ index >= Len(str) THEN str ELSE SubSeq(str, 1, index)

\* for (float v : vec) dataStr += String(v, places) + ",".  The vector
\* times holds milliseconds where the program holds seconds, rendered with 4
\* places; the weight vectors hold grams, rendered with 1 place: both are
\* 10 * v in units of the last place.  A time is an integer number of ms
\* below 2^24 divided by 1000.0, so the single-precision value is less than
\* 10^-6 away from it and its 4 places are those of the exact quotient.
RECURSIVE Values(_, _, _, _)
Values(vec, first, last, places) ==
  IF first > last THEN <<>>
  ELSE IF first = last
  THEN StringOfFloat(10 * vec[first], places) \o <<",">>
  ELSE CHOOSE str \in
         {Values(vec, first, mid, places) \o Values(vec, mid + 1, last, places) :
            mid \in {(first + last) \div 2}} : TRUE

AppendValues(str, vec, places) == str \o Values(vec, 1, Len(vec), places)

(***************************************************************************)
(* State.                                                                  *)
(***************************************************************************)
VARIABLES
  deviceConnected,  \* bool deviceConnected
  recording,        \* bool recording
  tempo,            \* String tempo
  backFrames,       \* int backFrames
  downFrames,       \* int downFrames
  countdownStart,   \* unsigned long countdownStart; 0 = no countdown
  times,            \* std::vector<float> times, kept in ms
  leadWeights,      \* std::vector<float> leadWeights
  trailWeights,     \* std::vector<float> trailWeights
  leadData,         \* what leadScale.getData() returns
  trailData,        \* what trailScale.getData() returns
  timeoutFlag,      \* a tare or signal timeout flag of one of the converters
  now,              \* millis()
  lpc,              \* position of the loop task
  backDelay,        \* loop(): float backDelay
  downDelay,        \* loop(): float downDelay
  recordEnd,        \* loop(): unsigned long recordEnd
  dataStr,          \* sendData(): String dataStr, as a character sequence
  bpc,              \* position of the BLE task
  rxData,           \* onWrite(): the characters rxData points to
  sent,             \* values notified since the last WEIGHT_DETECTED
  nWrites,          \* characteristic writes delivered so far
  nDisconnects      \* disconnect events delivered so far

globals == <<deviceConnected, recording, tempo, backFrames, downFrames,
             countdownStart, times, leadWeights, trailWeights>>
sensors == <<leadData, trailData, timeoutFlag>>
locals  == <<backDelay, downDelay, recordEnd, dataStr>>
counts  == <<nWrites, nDisconnects>>
vars    == <<globals, sensors, now, lpc, locals, bpc, rxData, sent, counts>>

\* pCharacteristic->setValue(v); pCharacteristic->notify()
Notified(ev, t, payload) == [ev |-> ev, at |-> t, data |-> payload]

Events(log) == [i \in 1..Len(log) |-> log[i].ev]

\* setup() does not return: while (1) of line 91 or of line 99
Halted == lpc \in {"L91", "L99"}

\* The state when setup() has returned, or has stopped in line 91 or 99
\* because a converter reported a timeout.
Init ==
  /\ lpc \in {"loop", "L91", "L99"}
  /\ timeoutFlag = Halted
  /\ deviceConnected = FALSE
  /\ recording = FALSE
  /\ tempo = <<>>
  /\ backFrames = 0
  /\ downFrames = 0
  /\ countdownStart = 0
  /\ times = <<>>
  /\ leadWeights = <<>>
  /\ trailWeights = <<>>
  /\ leadData = 0
  /\ trailData = 0
  /\ now = BootTime
  /\ backDelay = F32Zero
  /\ downDelay = F32Zero
  /\ recordEnd = 0
  /\ dataStr = <<>>
  /\ bpc = "idle"
  /\ rxData = <<>>
  /\ sent = <<>>
  /\ nWrites = 0
  /\ nDisconnects = 0

(***************************************************************************)
(* The loop task.                                                          *)
(***************************************************************************)
\* line 142 with || for &&
PresenceEither(lw, tw) == lw > WEIGHT_THRESHOLD \/ tw > WEIGHT_THRESHOLD

\* line 142
Presence(lw, tw) == lw > WEIGHT_THRESHOLD /\ tw > WEIGHT_THRESHOLD

\* line 151 with > for >=
SwingDueStrict(elapsed) == elapsed > 5000

\* line 151
SwingDue(elapsed) == elapsed >= 5000

\* line 183
RecordDue(elapsed) == elapsed >= 4000 /\ ~recording

\* line 189 with the test left out
CountdownRunningAlways == TRUE

\* line 189
CountdownRunning == countdownStart # 0

\* resetRecording() without line 240
resetRecordingKeepsCountdown ==
  /\ UNCHANGED countdownStart
  /\ recording' = FALSE
  /\ times' = <<>>
  /\ leadWeights' = <<>>
  /\ trailWeights' = <<>>

\* resetRecording()
resetRecording ==
  /\ countdownStart' = 0
  /\ recording' = FALSE
  /\ times' = <<>>
  /\ leadWeights' = <<>>
  /\ trailWeights' = <<>>

\* One iteration of loop() with a connected device and a new sample pair
\* (lw, tw), dt ms after the previous one, up to the START_SWING
\* notification of line 154.  A converter that timed out delivers no new
\* sample and line 129 is false.
Tick(dt, lw, tw) ==
  /\ lpc = "loop"
  /\ deviceConnected
  /\ ~timeoutFlag
  /\ now + dt <= MaxTime
  /\ now' = now + dt
  /\ leadData' = lw
  /\ trailData' = tw
  /\ UNCHANGED <<deviceConnected, tempo, backFrames, downFrames, locals,
                 bpc, rxData, counts, timeoutFlag>>
  /\ IF Presence(lw, tw)
     THEN LET start   == IF countdownStart = 0 THEN now' ELSE countdownStart
              log     == IF countdownStart = 0
                         THEN <<Notified("WEIGHT_DETECTED", now', <<>>)>>
                         ELSE sent
              elapsed == now' - start
          IN /\ countdownStart' = start
             /\ UNCHANGED <<times, leadWeights, trailWeights>>
             /\ IF SwingDue(elapsed)
                THEN /\ sent' = Append(log, Notified("START_SWING", now', <<>>))
                     /\ lpc' = "L158"
                     /\ UNCHANGED recording
                ELSE /\ sent' = log
                     /\ lpc' = "loop"
                     /\ recording' = (recording \/ RecordDue(elapsed))
     ELSE /\ lpc' = "loop"
          /\ IF CountdownRunning
             THEN /\ sent' = Append(sent, Notified("STEPPED_OFF", now', <<>>))
                  /\ resetRecording
             ELSE UNCHANGED <<sent, countdownStart, recording, times,
                              leadWeights, trailWeights>>

\* Iterations of loop() while no device is connected: line 128 is false and
\* only the delay of line 199 runs.
Idle(dt) ==
  /\ lpc = "loop"
  /\ ~deviceConnected
  /\ now + dt <= MaxTime
  /\ now' = now + dt
  /\ UNCHANGED <<globals, sensors, lpc, locals, bpc, rxData, sent, counts>>

\* line 158
L158 ==
  /\ lpc = "L158"
  /\ backDelay' = FrameDelay(backFrames)
  /\ lpc' = "L159"
  /\ UNCHANGED <<globals, sensors, now, downDelay, recordEnd, dataStr,
                 bpc, rxData, sent, counts>>

\* line 164 with a test that is never true
WhileTestSkipsLoop(t, end) == "L170"

\* The position after the test of the while loop of line 164 at time t.
WhileTest(t, end) == IF t < end THEN "L203" ELSE "L170"

\* lines 159-164
L159 ==
  /\ lpc = "L159"
  /\ LET down            == FrameDelay(downFrames)
         totalRecordTime == F32Add(F32Add(backDelay, down), F32FromNat(1000))
         end             == F32Trunc(F32Add(F32FromNat(now), totalRecordTime))
     IN /\ downDelay' = down
        /\ recordEnd' = end
        /\ lpc' = WhileTest(now, end)
  /\ recording' = TRUE
  /\ UNCHANGED <<deviceConnected, tempo, backFrames, downFrames,
                 countdownStart, times, leadWeights, trailWeights, sensors,
                 now, backDelay, dataStr, bpc, rxData, sent, counts>>

\* the argument of delay() in line 166, in ms
SampleDelay == F32Trunc(F32MulInt(SAMPLE_INTERVAL, 1000))

\* delay(SAMPLE_INTERVAL * 1000) of line 166 and the next test of line 164
Delay166 ==
  /\ now' = now + SampleDelay
  /\ lpc' = WhileTest(now', recordEnd)

\* millis() at the last START_SWING notification
SwingStart == sent[CHOOSE i \in 1..Len(sent) : sent[i].ev = "START_SWING"].at

\* The record loop is in one of the iterations during which the BLE task
\* may run.
BleWindowOpen == now - SwingStart < MaxBleIterations * SampleDelay

\* recordData(), line 203.  Where the BLE task cannot run between the
\* statements of recordData(), lines 203-207 and the delay of line 166 are
\* one step.
L203 ==
  /\ lpc = "L203"
  /\ IF ~recording
     THEN /\ Delay166
          /\ UNCHANGED <<times, leadWeights, trailWeights>>
     ELSE IF BleWindowOpen
     THEN /\ lpc' = "L205"
          /\ UNCHANGED <<now, times, leadWeights, trailWeights>>
     ELSE /\ times' = Append(times, now - countdownStart - 4000)
          /\ leadWeights' = Append(leadWeights, leadData)
          /\ trailWeights' = Append(trailWeights, trailData)
          /\ Delay166
  /\ UNCHANGED <<deviceConnected, recording, tempo, backFrames, downFrames,
                 countdownStart, sensors, locals, bpc, rxData, sent, counts>>

\* recordData(), lines 204-205
L205 ==
  /\ lpc = "L205"
  /\ times' = Append(times, now - countdownStart - 4000)
  /\ lpc' = "L206"
  /\ UNCHANGED <<deviceConnected, recording, tempo, backFrames, downFrames,
                 countdownStart, leadWeights, trailWeights, sensors, now,
                 locals, bpc, rxData, sent, counts>>

\* recordData(), line 206
L206 ==
  /\ lpc = "L206"
  /\ leadWeights' = Append(leadWeights, leadData)
  /\ lpc' = "L207"
  /\ UNCHANGED <<deviceConnected, recording, tempo, backFrames, downFrames,
                 countdownStart, times, trailWeights, sensors, now,
                 locals, bpc, rxData, sent, counts>>

\* recordData(), line 207, then line 166
L207 ==
  /\ lpc = "L207"
  /\ trailWeights' = Append(trailWeights, trailData)
  /\ Delay166
  /\ UNCHANGED <<deviceConnected, recording, tempo, backFrames, downFrames,
                 countdownStart, times, leadWeights, sensors,
                 locals, bpc, rxData, sent, counts>>

\* lines 170-172 replaced by the step-off branch of lines 191-194
L170StepsOff ==
  /\ lpc = "L170"
  /\ now' = now + F32Trunc(backDelay)
  /\ sent' = Append(sent, Notified("STEPPED_OFF", now', <<>>))
  /\ resetRecording
  /\ lpc' = "L176"
  /\ UNCHANGED <<deviceConnected, tempo, backFrames, downFrames, sensors,
                 locals, bpc, rxData, counts>>

\* lines 170-172
L170 ==
  /\ lpc = "L170"
  /\ now' = now + F32Trunc(backDelay)
  /\ sent' = Append(sent, Notified("TOP_BEEP", now', <<>>))
  /\ lpc' = "L176"
  /\ UNCHANGED <<globals, sensors, locals, bpc, rxData, counts>>

\* lines 176-178 notifying the value of line 171 again
L176RepeatsTopBeep ==
  /\ lpc = "L176"
  /\ now' = now + F32Trunc(downDelay)
  /\ sent' = Append(sent, Notified("TOP_BEEP", now', <<>>))
  /\ lpc' = "L212"
  /\ UNCHANGED <<globals, sensors, locals, bpc, rxData, counts>>

\* lines 176-178
L176 ==
  /\ lpc = "L176"
  /\ now' = now + F32Trunc(downDelay)
  /\ sent' = Append(sent, Notified("IMPACT_BEEP", now', <<>>))
  /\ lpc' = "L212"
  /\ UNCHANGED <<globals, sensors, locals, bpc, rxData, counts>>

\* sendData(): one of the four loops over a vector, appending to str, the
\* remove() after it and the closing characters; the last one is followed
\* by the notification of lines 234-235
SendGroup(str, vec, places, close, next) ==
  /\ lpc' = next
  /\ \E joined \in {AppendValues(str, vec, places)} :
       \E out \in {remove(joined, Len(joined) - 1) \o close} :
         IF next = "L182"
         THEN /\ sent' = Append(sent, Notified("DATA", now, out))
              /\ dataStr' = <<>>
         ELSE /\ dataStr' = out
              /\ UNCHANGED sent
  /\ UNCHANGED <<globals, sensors, now, backDelay, downDelay, recordEnd,
                 bpc, rxData, counts>>

\* lines 212-217
L212 ==
  /\ lpc = "L212"
  /\ SendGroup(<<"(">>, times, 4, <<")", ";", "(">>, "L218")

\* lines 218-222
L218 ==
  /\ lpc = "L218"
  /\ SendGroup(dataStr, leadWeights, 1, <<")", ";", "(">>, "L223")

\* lines 223-227
L223 ==
  /\ lpc = "L223"
  /\ SendGroup(dataStr, times, 4, <<")", ";", "(">>, "L228")

\* lines 228-235
L228 ==
  /\ lpc = "L228"
  /\ SendGroup(dataStr, trailWeights, 1, <<")">>, "L182")

\* line 182 left out
L182WithoutReset ==
  /\ lpc = "L182"
  /\ lpc' = "loop"
  /\ UNCHANGED <<globals, sensors, now, locals, bpc, rxData, sent, counts>>

\* line 182
L182 ==
  /\ lpc = "L182"
  /\ resetRecording
  /\ lpc' = "loop"
  /\ UNCHANGED <<deviceConnected, tempo, backFrames, downFrames, sensors,
                 now, locals, bpc, rxData, sent, counts>>

(***************************************************************************)
(* The BLE task.                                                           *)
(***************************************************************************)
\* The BLE task gets the processor.
BleScheduled == lpc \in {"L203", "L205", "L206", "L207"} => BleWindowOpen

\* Delivery of a BLE event starts a callback; the callbacks exist once
\* setup() has reached lines 103-115.
BleMayRun == bpc = "idle" /\ BleScheduled /\ ~Halted

\* MyServerCallbacks::onConnect
onConnect ==
  /\ BleMayRun
  /\ ~deviceConnected
  /\ deviceConnected' = TRUE
  /\ UNCHANGED <<recording, tempo, backFrames, downFrames, countdownStart,
                 times, leadWeights, trailWeights, sensors, now, lpc, locals,
                 bpc, rxData, sent, counts>>

\* MyServerCallbacks::onDisconnect, lines 44-47
onDisconnect ==
  /\ BleMayRun
  /\ deviceConnected
  /\ nDisconnects < MaxDisconnects
  /\ nDisconnects' = nDisconnects + 1
  /\ deviceConnected' = FALSE
  /\ recording' = FALSE
  /\ bpc' = "L48"
  /\ UNCHANGED <<tempo, backFrames, downFrames, countdownStart, times,
                 leadWeights, trailWeights, sensors, now, lpc, locals,
                 rxData, sent, nWrites>>

\* line 48
L48 ==
  /\ bpc = "L48"
  /\ BleScheduled
  /\ times' = <<>>
  /\ bpc' = "L49"
  /\ UNCHANGED <<deviceConnected, recording, tempo, backFrames, downFrames,
                 countdownStart, leadWeights, trailWeights, sensors, now,
                 lpc, locals, rxData, sent, counts>>

\* line 49
L49 ==
  /\ bpc = "L49"
  /\ BleScheduled
  /\ leadWeights' = <<>>
  /\ bpc' = "L50"
  /\ UNCHANGED <<deviceConnected, recording, tempo, backFrames, downFrames,
                 countdownStart, times, trailWeights, sensors, now,
                 lpc, locals, rxData, sent, counts>>

\* line 50
L50 ==
  /\ bpc = "L50"
  /\ BleScheduled
  /\ trailWeights' = <<>>
  /\ bpc' = "idle"
  /\ UNCHANGED <<deviceConnected, recording, tempo, backFrames, downFrames,
                 countdownStart, times, leadWeights, sensors, now,
                 lpc, locals, rxData, sent, counts>>

\* What rxData points to after line 57.  getValue() returns the value as a
\* temporary that is destroyed at the end of the statement, so rxData
\* dangles: the characters are still there, or the destroyed object has
\* been emptied.
RxOutcomes(value) == {value, <<>>}

\* MyCharacteristicCallbacks::onWrite, lines 57-66
onWrite(value, rx) ==
  /\ BleMayRun
  /\ deviceConnected
  /\ nWrites < MaxWrites
  /\ nWrites' = nWrites + 1
  /\ rx \in RxOutcomes(value)
  /\ IF Len(rx) > 0 /\ strchr(rx, 1) # 0
     THEN /\ backFrames' = atoi(SubSeq(rx, 1, strchr(rx, 1) - 1))
          /\ rxData' = rx
          /\ bpc' = "L67"
     ELSE UNCHANGED <<backFrames, rxData, bpc>>
  /\ UNCHANGED <<deviceConnected, recording, tempo, downFrames,
                 countdownStart, times, leadWeights, trailWeights, sensors,
                 now, lpc, locals, sent, nDisconnects>>

\* lines 67-71
L67 ==
  /\ bpc = "L67"
  /\ BleScheduled
  /\ downFrames' = atoi(SubSeq(rxData, strchr(rxData, 1) + 1, Len(rxData)))
  /\ tempo' = StringOfInt(backFrames) \o <<"/">> \o StringOfInt(downFrames')
  /\ rxData' = <<>>
  /\ bpc' = "idle"
  /\ UNCHANGED <<deviceConnected, recording, backFrames, countdownStart,
                 times, leadWeights, trailWeights, sensors, now, lpc, locals,
                 sent, counts>>

\* A converter stops delivering samples after setup() and its signal
\* timeout flag is set; no statement of loop() reads the flag.
SignalTimeout ==
  /\ ~Halted
  /\ ~timeoutFlag
  /\ timeoutFlag' = TRUE
  /\ UNCHANGED <<globals, leadData, trailData, now, lpc, locals, bpc, rxData,
                 sent, counts>>

Next ==
  \/ \E dt \in Steps, lw \in Weights, tw \in Weights : Tick(dt, lw, tw)
  \/ \E dt \in Steps : Idle(dt)
  \/ L158 \/ L159 \/ L203 \/ L205 \/ L206 \/ L207
  \/ L170 \/ L176 \/ L212 \/ L218 \/ L223 \/ L228 \/ L182
  \/ onConnect \/ onDisconnect \/ L48 \/ L49 \/ L50
  \/ \E value \in Commands : \E rx \in RxOutcomes(value) : onWrite(value, rx)
  \/ L67

Spec == Init /\ [][Next]_vars

\* The program with converters that may time out after setup().
FaultNext == Next \/ SignalTimeout

FaultSpec == Init /\ [][FaultNext]_vars

\* The loop task: the statements of the swing trigger after line 154.
LoopTask ==
  \/ L158 \/ L159 \/ L203 \/ L205 \/ L206 \/ L207
  \/ L170 \/ L176 \/ L212 \/ L218 \/ L223 \/ L228 \/ L182

\* loop() runs in a task of its own that is always ready inside the swing
\* trigger: delay() returns and no statement of lines 158-182 waits for the
\* BLE task.
FairSpec == Spec /\ WF_vars(LoopTask)

(***************************************************************************)
(* sendData() and the resetRecording() after it on their own, for the      *)
(* series the recorder can hold: up to MaxSamples samples taken            *)
(* SampleDelay ms apart, the first one 1000 ms or more after the 4 s mark, *)
(* each vector possibly shortened by a clear of an onDisconnect that was   *)
(* followed by a new connection.                                           *)
(***************************************************************************)
FirstTimes == {1000, 1500}

SeriesOfTimes ==
  {[i \in 1..n |-> first + (i - 1) * SampleDelay] :
     n \in 0..MaxSamples, first \in FirstTimes}

SeriesOfWeights == UNION {[1..n -> Weights] : n \in 0..MaxSamples}

SendInit ==
  /\ times \in SeriesOfTimes
  /\ leadWeights \in SeriesOfWeights
  /\ trailWeights \in SeriesOfWeights
  /\ lpc = "L212"
  /\ deviceConnected = TRUE
  /\ recording = FALSE
  /\ tempo = <<>>
  /\ backFrames = 0
  /\ downFrames = 0
  /\ countdownStart = BootTime + 500
  /\ leadData = 1200
  /\ trailData = 1200
  /\ timeoutFlag = FALSE
  /\ now = BootTime + 500 + 5000 + 84 * SampleDelay
  /\ backDelay = F32Zero
  /\ downDelay = F32Zero
  /\ recordEnd = BootTime + 500 + 5000 + 1000
  /\ dataStr = <<>>
  /\ bpc = "idle"
  /\ rxData = <<>>
  /\ sent = <<>>
  /\ nWrites = 0
  /\ nDisconnects = 1

SendNext == L212 \/ L218 \/ L223 \/ L228 \/ L182

SendSpec == SendInit /\ [][SendNext]_vars

(***************************************************************************)
(* Vocabulary of the properties.                                           *)
(***************************************************************************)
\* A step that is an iteration of loop() taking a new sample pair.
TickStep == lpc = "loop" /\ deviceConnected /\ now' # now

\* Both new readings are above the threshold.
PresentNext ==
  leadData' > WEIGHT_THRESHOLD /\ trailData' > WEIGHT_THRESHOLD

\* The value the step notifies; every step notifies at most one.
Emitted == IF sent' = sent THEN "none" ELSE sent'[Len(sent')].ev

RecorderEmptyNext ==
  times' = <<>> /\ leadWeights' = <<>> /\ trailWeights' = <<>>

(***************************************************************************)
(* C1.  With presence on every tick, a tick taken with no countdown        *)
(* running notifies WEIGHT_DETECTED and starts the countdown; a tick of    *)
(* the running countdown notifies nothing while less than 5000 ms have     *)
(* elapsed, and START_SWING on the first tick at which 5000 ms or more     *)
(* have elapsed; START_SWING occurs once in a countdown.                   *)
(***************************************************************************)
C1_CountdownToSwing ==
  /\ [][TickStep /\ PresentNext =>
          /\ countdownStart = 0 =>
               /\ Emitted = "WEIGHT_DETECTED"
               /\ Events(sent') = <<"WEIGHT_DETECTED">>
               /\ countdownStart' = now'
          /\ countdownStart # 0 /\ now' - countdownStart < 5000 =>
               Emitted = "none" /\ lpc' = "loop"
          /\ countdownStart # 0 /\ now' - countdownStart >= 5000 =>
               Emitted = "START_SWING" /\ lpc' = "L158"]_vars
  /\ [](Cardinality({i \in 1..Len(sent) : sent[i].ev = "START_SWING"}) <= 1)
  /\ [](Cardinality({i \in 1..Len(sent) : sent[i].ev = "WEIGHT_DETECTED"}) <= 1)

\* START_SWING was notified exactly 5000 ms after WEIGHT_DETECTED.
C1_Witness ==
  /\ lpc = "L158"
  /\ Events(sent) = <<"WEIGHT_DETECTED", "START_SWING">>
  /\ sent[2].at - sent[1].at = 5000

(***************************************************************************)
(* C2.  A tick of a running countdown without presence, less than 5000 ms  *)
(* after the countdown started, notifies STEPPED_OFF once, empties the     *)
(* three vectors, clears the recording flag and resets the countdown; a    *)
(* tick without presence and without countdown notifies nothing.           *)
(***************************************************************************)
C2_StepOffResets ==
  /\ [][TickStep /\ ~PresentNext /\ countdownStart # 0
          /\ now' - countdownStart < 5000 =>
          /\ sent' = Append(sent, [ev |-> "STEPPED_OFF", at |-> now',
                                   data |-> <<>>])
          /\ RecorderEmptyNext
          /\ ~recording'
          /\ countdownStart' = 0
          /\ lpc' = "loop"]_vars
  /\ [][TickStep /\ ~PresentNext /\ countdownStart = 0 =>
          Emitted = "none" /\ countdownStart' = 0]_vars

\* A tick without presence was taken after an early STEPPED_OFF.
C2_Witness ==
  /\ Events(sent) = <<"WEIGHT_DETECTED", "STEPPED_OFF">>
  /\ sent[2].at - sent[1].at < 5000
  /\ countdownStart = 0
  /\ deviceConnected
  /\ now > sent[2].at
  /\ ~(leadData > WEIGHT_THRESHOLD /\ trailData > WEIGHT_THRESHOLD)

(***************************************************************************)
(* C3.  When onDisconnect returns, the recording flag is false, the three  *)
(* vectors are empty and no countdown is running.                          *)
(***************************************************************************)
C3_DisconnectForcesIdle ==
  [][bpc = "L50" /\ bpc' = "idle" =>
       ~recording' /\ RecorderEmptyNext /\ countdownStart' = 0]_vars

(***************************************************************************)
(* C4.  The delays of a swing trigger are computed from one complete       *)
(* tempo: the one in force before a command or the one the command sets.   *)
(***************************************************************************)
\* The tempo a command sets once onWrite has returned.
TempoOf(value) ==
  <<atoi(SubSeq(value, 1, strchr(value, 1) - 1)),
    atoi(SubSeq(value, strchr(value, 1) + 1, Len(value)))>>

\* The tempo at start and the tempos the commands set.
CompleteTempos ==
  {<<0, 0>>} \cup {TempoOf(value) : value \in {v \in Commands : strchr(v, 1) # 0}}

C4_TempoReadAtomically ==
  lpc \in {"L203", "L205", "L206", "L207", "L170", "L176"} =>
    \E c \in CompleteTempos :
      backDelay = FrameDelay(c[1]) /\ downDelay = FrameDelay(c[2])

(***************************************************************************)
(* C5.  While sendData reads the vectors and no clear of onDisconnect is   *)
(* under way, the three vectors have the same length.                      *)
(***************************************************************************)
C5_EqualLengths ==
  lpc \in {"L212", "L218", "L223", "L228"} /\ bpc \notin {"L48", "L49", "L50"} =>
    Len(times) = Len(leadWeights) /\ Len(leadWeights) = Len(trailWeights)

(***************************************************************************)
(* C6.  A write whose value has no '/' or has a side that is not a decimal *)
(* number changes neither frame count, notifies nothing and leaves the     *)
(* loop position, the countdown and the recorder as they are.              *)
(***************************************************************************)
Numeric(s) == Len(s) > 0 /\ \A i \in 1..Len(s) : IsDigit(s[i])

Malformed(value) ==
  \/ strchr(value, 1) = 0
  \/ ~Numeric(SubSeq(value, 1, strchr(value, 1) - 1))
  \/ ~Numeric(SubSeq(value, strchr(value, 1) + 1, Len(value)))

C6_MalformedIsNoOp ==
  /\ [][\A value \in Commands :
          Malformed(value) /\ (\E rx \in RxOutcomes(value) : onWrite(value, rx))
          => UNCHANGED <<backFrames, downFrames, sent, lpc, countdownStart,
                         recording, times, leadWeights, trailWeights>>]_vars
  /\ [][bpc = "L67" /\ bpc' = "idle" /\ Malformed(rxData)
          => UNCHANGED <<backFrames, downFrames, sent, lpc, countdownStart,
                         recording, times, leadWeights, trailWeights>>]_vars

(***************************************************************************)
(* C7.  Once recording has been started at the 4000 ms mark, every tick    *)
(* of the countdown with presence appends a sample, and the recorder is    *)
(* not empty when START_SWING is notified.                                 *)
(***************************************************************************)
C7_SamplesBeforeSwing ==
  /\ [][TickStep /\ PresentNext /\ recording /\ countdownStart # 0 =>
          Len(times') = Len(times) + 1]_vars
  /\ [][TickStep /\ recording /\ Emitted = "START_SWING" =>
          Len(times') > 0 /\ Len(leadWeights') > 0 /\ Len(trailWeights') > 0]_vars

(***************************************************************************)
(* C8.  TOP_BEEP is notified backFrames * 33 ms after START_SWING and      *)
(* IMPACT_BEEP downFrames * 33 ms after TOP_BEEP, for the frame counts the *)
(* swing trigger read.                                                     *)
(***************************************************************************)
FRAME_TIME_MS == 33

\* Frame counts the commands can set.
FrameCounts == 0..9

At(ev) == sent[CHOOSE i \in 1..Len(sent) : sent[i].ev = ev].at

Has(ev) == \E i \in 1..Len(sent) : sent[i].ev = ev

C8_BeepTimes ==
  /\ Has("START_SWING") /\ Has("TOP_BEEP") =>
       \E n \in FrameCounts :
         /\ backDelay = FrameDelay(n)
         /\ At("TOP_BEEP") - At("START_SWING") = n * FRAME_TIME_MS
  /\ Has("TOP_BEEP") /\ Has("IMPACT_BEEP") =>
       \E n \in FrameCounts :
         /\ downDelay = FrameDelay(n)
         /\ At("IMPACT_BEEP") - At("TOP_BEEP") = n * FRAME_TIME_MS

(***************************************************************************)
(* C9.  A DATA notification is the fifth of its cycle, after               *)
(* WEIGHT_DETECTED, START_SWING, TOP_BEEP and IMPACT_BEEP in this order,   *)
(* and a cycle with a STEPPED_OFF has no DATA.                             *)
(***************************************************************************)
C9_DataEndsFullSwing ==
  /\ \A i \in 1..Len(sent) :
       sent[i].ev = "DATA" =>
         /\ i = 5
         /\ Events(SubSeq(sent, 1, 4)) =
              <<"WEIGHT_DETECTED", "START_SWING", "TOP_BEEP", "IMPACT_BEEP">>
  /\ Has("STEPPED_OFF") => ~Has("DATA")

\* A swing sequence has notified its data.
C9_Witness ==
  Events(sent) = <<"WEIGHT_DETECTED", "START_SWING", "TOP_BEEP",
                   "IMPACT_BEEP", "DATA">>

(***************************************************************************)
(* C10.  A tick of a running countdown without presence, 4000 ms or more   *)
(* after the countdown started, notifies STEPPED_OFF and resets the        *)
(* countdown; it neither starts recording nor notifies START_SWING.        *)
(***************************************************************************)
C10_StepOffBeforeTimers ==
  [][TickStep /\ ~PresentNext /\ countdownStart # 0
       /\ now' - countdownStart >= 4000 =>
       /\ Emitted = "STEPPED_OFF"
       /\ countdownStart' = 0
       /\ ~recording'
       /\ lpc' = "loop"]_vars

\* STEPPED_OFF was notified on a tick 5000 ms or more into the countdown.
C10_Witness ==
  /\ Events(sent) = <<"WEIGHT_DETECTED", "STEPPED_OFF">>
  /\ sent[2].at - sent[1].at >= 5000
  /\ countdownStart = 0
  /\ lpc = "loop"

(***************************************************************************)
(* C11.  A tick taken with no countdown running and without presence       *)
(* notifies nothing and leaves the machine idle: no countdown, the         *)
(* recording flag false, the three vectors empty, the loop task at the     *)
(* top of loop().                                                          *)
(***************************************************************************)
C11_IdleStaysIdle ==
  [][TickStep /\ ~PresentNext /\ countdownStart = 0 =>
       /\ Emitted = "none"
       /\ countdownStart' = 0
       /\ ~recording'
       /\ RecorderEmptyNext
       /\ lpc' = "loop"]_vars

\* The last tick read one weight above and one at the threshold, and no
\* tick has detected weight since the start.
C11_Witness ==
  /\ deviceConnected
  /\ sent = <<>>
  /\ countdownStart = 0
  /\ leadData = 1200 /\ trailData = 1000
  /\ now >= BootTime + 4500
  /\ nDisconnects = 0

(***************************************************************************)
(* C12.  sendData() called with the three vectors empty notifies           *)
(* "();();();()".                                                          *)
(***************************************************************************)
\* The value of the last notification.
Payload == sent[Len(sent)].data

C12_EmptySeries ==
  lpc = "L182" /\ Len(times) = 0 /\ Len(leadWeights) = 0
               /\ Len(trailWeights) = 0 =>
    Payload = <<"(", ")", ";", "(", ")", ";", "(", ")", ";", "(", ")">>

(***************************************************************************)
(* C13.  A write of "B/D", B and D decimal numbers, sets backFrames to B   *)
(* and downFrames to D.                                                    *)
(***************************************************************************)
\* The number a sequence of decimal digits denotes.
RECURSIVE Decimal(_)
Decimal(s) ==
  IF Len(s) = 0 THEN 0
  ELSE 10 * Decimal(SubSeq(s, 1, Len(s) - 1)) + DigitVal(s[Len(s)])

Back(value) == Decimal(SubSeq(value, 1, strchr(value, 1) - 1))

Down(value) == Decimal(SubSeq(value, strchr(value, 1) + 1, Len(value)))

C14_ConnectStartsIdle ==
  [][~deviceConnected /\ deviceConnected' =>
       /\ countdownStart' = 0
       /\ ~recording'
       /\ RecorderEmptyNext
       /\ lpc' = "loop"]_vars

(***************************************************************************)
(* C15.  Between onDisconnect and the next onConnect nothing is notified.  *)
(***************************************************************************)
C15_SilentAfterDisconnect ==
  [][~deviceConnected => sent' = sent]_vars

(***************************************************************************)
(* C16.  Once a converter has reported a timeout, at setup or later,       *)
(* nothing is notified and the countdown is neither started nor reset.     *)
(***************************************************************************)
C16_FaultHalts ==
  [][timeoutFlag => sent' = sent /\ countdownStart' = countdownStart]_vars

(***************************************************************************)
(* C17.  For three vectors of the same length n > 0 the value sendData()   *)
(* notifies is "(T);(L);(T);(R)", where T, L and R are the n values of     *)
(* times, leadWeights and trailWeights in order, separated by commas.      *)
(***************************************************************************)
\* The values of vec with a comma between two of them.
RECURSIVE Joined(_, _)
Joined(vec, places) ==
  IF Len(vec) = 0 THEN <<>>
  ELSE IF Len(vec) = 1 THEN StringOfFloat(10 * vec[1], places)
  ELSE StringOfFloat(10 * vec[1], places) \o <<",">>
         \o Joined(SubSeq(vec, 2, Len(vec)), places)

Group(vec, places) == <<"(">> \o Joined(vec, places) \o <<")">>

C17_FourGroups ==
  lpc = "L182" /\ Len(times) > 0 /\ Len(leadWeights) = Len(times)
               /\ Len(trailWeights) = Len(times) =>
    Payload = Group(times, 4) \o <<";">> \o Group(leadWeights, 1) \o <<";">>
                \o Group(times, 4) \o <<";">> \o Group(trailWeights, 1)

\* A series of two samples was notified.
C17_Witness ==
  /\ lpc = "L182"
  /\ times = <<1000, 1012>>
  /\ leadWeights = <<1200, 1000>>
  /\ trailWeights = <<1000, 1200>>
  /\ Payload =
       <<"(", "1", ".", "0", "0", "0", "0", ",", "1", ".", "0", "1",
         "2", "0", ")", ";", "(", "1", "2", "0", "0", ".", "0", ",",
         "1", "0", "0", "0", ".", "0", ")", ";", "(", "1", ".", "0",
         "0", "0", "0", ",", "1", ".", "0", "1", "2", "0", ")", ";",
         "(", "1", "0", "0", "0", ".", "0", ",", "1", "2", "0", "0",
         ".", "0", ")">>

(***************************************************************************)
(* C18.  A tick with presence 5000 ms or more into the countdown, taken    *)
(* with the recording flag still false, notifies START_SWING and enters    *)
(* the swing trigger; line 162 sets the flag, and unless a disconnect      *)
(* intervenes the vectors hold samples when the record loop has ended,     *)
(* the first one taken at START_SWING.                                     *)
(***************************************************************************)
AfterRecordLoop == {"L170", "L176", "L212", "L218", "L223", "L228"}

C18_TriggerWithoutArming ==
  /\ [][TickStep /\ PresentNext /\ ~recording /\ countdownStart # 0
          /\ now' - countdownStart >= 5000 =>
          Emitted = "START_SWING" /\ lpc' = "L158"]_vars
  /\ [][lpc = "L159" /\ lpc' # "L159" => recording']_vars
  /\ [](lpc \in AfterRecordLoop /\ nDisconnects = 0 =>
          /\ Len(times) > 0
          /\ Len(leadWeights) = Len(times)
          /\ Len(trailWeights) = Len(times)
          /\ times[1] = At("START_SWING") - countdownStart - 4000)

\* The record loop has ended after a START_SWING 5500 ms into the
\* countdown: the tick before it was taken 1500 ms into the countdown.
C18_Witness ==
  /\ lpc = "L170"
  /\ nDisconnects = 0
  /\ Events(sent) = <<"WEIGHT_DETECTED", "START_SWING">>
  /\ sent[2].at - sent[1].at = 5500
  /\ Len(times) > 0

(***************************************************************************)
(* C19.  From START_SWING to the DATA notification no step notifies        *)
(* STEPPED_OFF or WEIGHT_DETECTED and none changes countdownStart.         *)
(***************************************************************************)
BeforeData ==
  {"L158", "L159", "L203", "L205", "L206", "L207", "L170", "L176",
   "L212", "L218", "L223", "L228"}

C19_SwingUninterruptible ==
  [][(lpc \in BeforeData) =>
       /\ Emitted \in {"none", "TOP_BEEP", "IMPACT_BEEP", "DATA"}
       /\ countdownStart # 0
       /\ countdownStart' = countdownStart]_vars

\* Both beeps were notified and the countdown of the cycle is still set.
C19_Witness ==
  /\ lpc = "L212"
  /\ Events(sent) = <<"WEIGHT_DETECTED", "START_SWING", "TOP_BEEP",
                      "IMPACT_BEEP">>
  /\ countdownStart = sent[1].at

(***************************************************************************)
(* C20.  Every swing trigger ends: after START_SWING the loop task is      *)
(* eventually back at the top of loop() with TOP_BEEP, IMPACT_BEEP and     *)
(* DATA notified, no countdown running, the recording flag false and the   *)
(* vectors empty; the step out of line 182 establishes this, and           *)
(* WEIGHT_DETECTED is notified only from the top of loop() with no         *)
(* countdown running.                                                      *)
(***************************************************************************)
SwingDone ==
  /\ lpc = "loop"
  /\ Events(sent) = <<"WEIGHT_DETECTED", "START_SWING", "TOP_BEEP",
                      "IMPACT_BEEP", "DATA">>
  /\ countdownStart = 0
  /\ ~recording
  /\ times = <<>> /\ leadWeights = <<>> /\ trailWeights = <<>>

C20_SwingCompletes ==
  /\ (lpc = "L158") ~> SwingDone
  /\ [][lpc = "L182" /\ lpc' # "L182" =>
          /\ lpc' = "loop"
          /\ countdownStart' = 0
          /\ ~recording'
          /\ RecorderEmptyNext]_vars
  /\ [][Emitted = "WEIGHT_DETECTED" => countdownStart = 0 /\ lpc = "loop"]_vars

\* A swing trigger with the tempo of a command has ended.
C20_Witness ==
  /\ SwingDone
  /\ backFrames = 6 /\ downFrames = 3
  /\ backDelay = FrameDelay(6) /\ downDelay = FrameDelay(3)

====
